---------------------------- MODULE Spec2Model ----------------------------
(***************************************************************************)
(* export_btc.py: three provider adapters (Yahoo Finance, CryptoCompare,   *)
(* CoinGecko) are called in turn, their frames are merged by date with     *)
(* priority Yahoo > CryptoCompare > CoinGecko, and the merged frame is     *)
(* written to btc_prices.csv and read back.                                *)
(*                                                                         *)
(* A frame (pandas DataFrame with columns date, Open, Close) is a sequence *)
(* of rows [date, Open, Close]; a function result that may be None is a    *)
(* record [ok, rows] with ok = FALSE for None.  Dates are day numbers,     *)
(* timestamps are seconds (milliseconds for CoinGecko) counted from the    *)
(* first day of the model.  NaN is the missing value.                      *)
(***************************************************************************)
EXTENDS Integers, Sequences, FiniteSets

\* ---------------------------------------------------------------- bounds
\* Dates are the days 0..MaxDate
MaxDate == 1
\* Rows of one Yahoo frame, points of one CoinGecko response
MaxRows == 2
\* Elements of one CryptoCompare page
MaxPage == 1
\* Distinct elements CryptoCompare's all_data holds
MaxData == 2

\* ------------------------------------------------------ program constants
DaySecs == 86400
WindowDays == 2000
MsPerDay == 86400000
MinRows == 365

NaN == -1
Dates == 0..MaxDate
\* The program copies prices and only tests them for "> 0" and for missing:
\* 0 is a price that is not positive, 1 a positive one
Prices == {0, 1}
PricesNaN == Prices \cup {NaN}

\* datetime.now(): the middle of the last day of the model
NowTs == MaxDate * DaySecs + (DaySecs \div 2)
\* datetime(2010, 1, 1): the first day of the model
StartTs == 0

None == [ok |-> FALSE, rows |-> <<>>]
Frame(rows) == [ok |-> TRUE, rows |-> rows]

Header == <<"date", "Open", "Close">>

VARIABLES pc, calls, df_yahoo, df_crypto, df_gecko,
          current_date, to_ts, all_data, batch_num, sources, merged, report,
          file, test, warned, exit_code

vars == <<pc, calls, df_yahoo, df_crypto, df_gecko,
          current_date, to_ts, all_data, batch_num, sources, merged, report,
          file, test, warned, exit_code>>

\* ------------------------------------------------------- frame operators
RECURSIVE SelectIdx(_, _, _)
SelectIdx(s, idx, i) ==
    IF i > Len(s) THEN <<>>
    ELSE (IF i \in idx THEN <<s[i]>> ELSE <<>>) \o SelectIdx(s, idx, i + 1)

\* Stands for a bug in DropDuplicates: keep = "last"
DropDuplicatesKeepLast(rows) ==
    SelectIdx(rows, {i \in DOMAIN rows :
                        \A j \in (i + 1)..Len(rows) : rows[j].date # rows[i].date}, 1)

\* DataFrame.drop_duplicates("date"), keep = "first"
DropDuplicates(rows) ==
    SelectIdx(rows, {i \in DOMAIN rows :
                        \A j \in 1..(i - 1) : rows[j].date # rows[i].date}, 1)

\* Stands for a bug in SortValues: the frame is left in concatenation order
SortValuesNone(rows) == rows

RECURSIVE SortValues(_)
\* DataFrame.sort_values("date"): ascending, rows of equal date keep their order
SortValues(rows) ==
    IF rows = <<>> THEN <<>>
    ELSE LET r == rows[Len(rows)]
             s == SortValues(SubSeq(rows, 1, Len(rows) - 1))
             k == Cardinality({i \in DOMAIN s : s[i].date <= r.date})
         IN SubSeq(s, 1, k) \o <<r>> \o SubSeq(s, k + 1, Len(s))

\* DataFrame.dropna(): rows with a missing field are dropped
DropNa(rows) == SelectSeq(rows, LAMBDA r : r.Open # NaN /\ r.Close # NaN)

DateSet(rows) == {rows[i].date : i \in DOMAIN rows}

\* datetime.fromtimestamp(ts).date() / pd.to_datetime(...).dt.date
DateOf(ts) == ts \div DaySecs
\* pd.to_datetime(ts, unit="ms").dt.date
DateOfMs(ms) == ms \div MsPerDay

\* "df is not None and not df.empty"
Successful(df) == df.ok /\ df.rows # <<>>


\* ------------------------------------------------------ provider payloads
\* What yfinance hands back: rows (Date, Open, Close), Date a timestamp
\* (two instants per day; a day's candle opens and closes at one quote q)
YahooTimes == {d * DaySecs + o : d \in Dates, o \in {0, DaySecs \div 2}}
YahooRaw == {[Date |-> t, Open |-> q, Close |-> q] : t \in YahooTimes, q \in PricesNaN}
\* One element of Data.Data of a histoday response
CCItems == {[time |-> d * DaySecs, open |-> q, close |-> q] : d \in Dates, q \in Prices}
\* One element of "prices" of a market_chart response: (timestamp in ms, price);
\* one point at the start of each day and one at the instant of the request
GeckoTimes == {d * MsPerDay : d \in Dates} \cup {DateOf(NowTs) * MsPerDay + MsPerDay \div 2}
GeckoPoints == [timestamp : GeckoTimes, price : PricesNaN]

RECURSIVE SeqsUpTo(_, _)
SeqsUpTo(S, n) ==
    IF n = 0 THEN {<<>>}
    ELSE LET shorter == SeqsUpTo(S, n - 1)
         IN shorter \cup {Append(s, x) : s \in {t \in shorter : Len(t) = n - 1}, x \in S}

\* --------------------------------------------------------- Yahoo Finance
\* Lines 38-44: reset_index, Date -> date, the three columns, dropna
YahooNormalize(raw) ==
    DropNa([i \in DOMAIN raw |->
               [date |-> DateOf(raw[i].Date), Open |-> raw[i].Open, Close |-> raw[i].Close]])

\* The value fetch_btc_yfinance returns: err is any exception raised inside the
\* try block, m1 the frame of history(period="max"), m2 the frame of download()
YFinance(err, m1, m2) ==
    IF err THEN None
    ELSE LET df == IF m1 = <<>> THEN m2 ELSE m1
         IN IF df = <<>> THEN None ELSE Frame(YahooNormalize(df))

\* What one call of the adapter meets: an exception, a frame from the first
\* method, or an empty first frame and the frame of the second method
YahooFrames == SeqsUpTo(YahooRaw, MaxRows)
YahooOutcomes ==
    {[err |-> TRUE, m1 |-> <<>>, m2 |-> <<>>]}
      \cup {[err |-> FALSE, m1 |-> f, m2 |-> <<>>] : f \in YahooFrames \ {<<>>}}
      \cup {[err |-> FALSE, m1 |-> <<>>, m2 |-> f] : f \in YahooFrames}

\* "if df is not None and not df.empty: sources.append((name, df))"
AppendSource(srcs, name, df) ==
    IF Successful(df) THEN Append(srcs, [name |-> name, rows |-> df.rows]) ELSE srcs

\* Stands for a bug in FetchYahoo: no try/except, the exception leaves merge_sources
FetchYahooUncaught ==
    /\ pc = "yahoo"
    /\ \E out \in YahooOutcomes :
          LET df == YFinance(out.err, out.m1, out.m2)
              raised == df = None
          IN /\ df_yahoo' = df
             /\ sources' = AppendSource(sources, "Yahoo", df)
             /\ pc' = IF raised THEN "crashed" ELSE "crypto"
             /\ exit_code' = IF raised THEN 1 ELSE exit_code
    /\ calls' = Append(calls, "Yahoo")
    /\ UNCHANGED <<df_crypto, df_gecko, current_date, to_ts, all_data, batch_num,
                   merged, report, file, test, warned>>

\* df_yahoo = fetch_btc_yfinance() and the append that follows it
FetchYahoo ==
    /\ pc = "yahoo"
    /\ \E out \in YahooOutcomes :
          LET df == YFinance(out.err, out.m1, out.m2)
          IN /\ df_yahoo' = df
             /\ sources' = AppendSource(sources, "Yahoo", df)
    /\ calls' = Append(calls, "Yahoo")
    /\ pc' = "crypto"
    /\ UNCHANGED <<df_crypto, df_gecko, current_date, to_ts, all_data, batch_num,
                   merged, report, file, test, warned, exit_code>>

\* --------------------------------------------------------- CryptoCompare
\* int(min(current_date.timestamp() + 2000 * 86400, end_date.timestamp()))
ToTs(current) ==
    IF current + WindowDays * DaySecs < NowTs THEN current + WindowDays * DaySecs ELSE NowTs

\* all_data.extend(prices).  An element equal to an earlier element of the list
\* is not stored again: the rows built from all_data go through
\* drop_duplicates("date") (first kept), so a repeated element never shows.
Extend(data, prices) ==
    LET all == data \o prices
    IN SelectIdx(all, {i \in DOMAIN all : \A j \in 1..(i - 1) : all[j] # all[i]}, 1)

\* Lines 109-128: the rows of the elements with close > 0, one per date, sorted
CCProcess(data) ==
    IF data = <<>> THEN None
    ELSE LET valid == SelectSeq(data, LAMBDA it : it.close > 0)
             rows == [i \in DOMAIN valid |->
                         [date |-> DateOf(valid[i].time),
                          Open |-> valid[i].open, Close |-> valid[i].close]]
         IN IF rows = <<>> THEN None
            ELSE Frame(SortValues(DropDuplicates(rows)))

\* What one request meets
CCResponses ==
    {[kind |-> k, prices |-> <<>>] : k \in {"error", "refused"}}
      \cup {[kind |-> "page", prices |-> p] : p \in SeqsUpTo(CCItems, MaxPage)}

\* fetch_btc_cryptocompare is entered: lines 60-74
CCStart ==
    /\ pc = "crypto"
    /\ calls' = Append(calls, "CryptoCompare")
    /\ current_date' = StartTs
    /\ all_data' = <<>>
    /\ batch_num' = 0
    /\ pc' = "crypto_loop"
    /\ UNCHANGED <<df_yahoo, df_crypto, df_gecko, to_ts, sources, merged,
                   report, file, test, warned, exit_code>>

\* The adapter returns df: the caller stores it and appends it to sources; the
\* adapter's locals are gone
CCReturn(df) ==
    /\ df_crypto' = df
    /\ sources' = AppendSource(sources, "CryptoCompare", df)
    /\ current_date' = StartTs
    /\ all_data' = <<>>
    /\ batch_num' = 0
    /\ pc' = "gecko"

\* One pass of the while loop (lines 75-107) and, when the loop is left, the
\* rest of the function.  kind is what the request did: "error" (exception in
\* requests.get, raise_for_status, json or the element access), "refused"
\* (Response other than Success), "page" (Success with the list prices).
\* batch_num is only printed; it is kept modulo 2.
CCBatch ==
    /\ pc = "crypto_loop"
    /\ current_date < NowTs
    /\ to_ts' = ToTs(current_date)
    /\ \E resp \in CCResponses :
          LET kind == resp.kind
              prices == resp.prices
          IN
          /\ Len(Extend(all_data, prices)) <= MaxData
          /\ IF kind = "error"
             THEN CCReturn(None)
             ELSE IF kind = "refused" \/ prices = <<>>
             THEN CCReturn(CCProcess(all_data))
             ELSE LET data == Extend(all_data, prices)
                      next == prices[Len(prices)].time + DaySecs
                  IN IF next < NowTs
                     THEN /\ all_data' = data
                          /\ current_date' = next
                          /\ batch_num' = (batch_num + 1) % 2
                          /\ UNCHANGED <<df_crypto, sources, pc>>
                     ELSE CCReturn(CCProcess(data))
    /\ UNCHANGED <<calls, df_yahoo, df_gecko, merged, report, file, test,
                   warned, exit_code>>

\* ------------------------------------------------------------- CoinGecko
RECURSIVE GroupRows(_, _)
\* groupby("date")["price"]: first() and last() of each date, dates ascending;
\* both skip missing prices
GroupRows(pts, ds) ==
    IF ds = {} THEN <<>>
    ELSE LET d == CHOOSE x \in ds : \A y \in ds : x <= y
             grp == SelectSeq(pts, LAMBDA p : DateOfMs(p.timestamp) = d /\ p.price # NaN)
             row == [date |-> d,
                     Open |-> IF grp = <<>> THEN NaN ELSE grp[1].price,
                     Close |-> IF grp = <<>> THEN NaN ELSE grp[Len(grp)].price]
         IN <<row>> \o GroupRows(pts, ds \ {d})

\* The value fetch_btc_coingecko_free returns
CoinGecko(err, prices) ==
    IF err \/ prices = <<>> THEN None
    ELSE Frame(GroupRows(prices, {DateOfMs(prices[i].timestamp) : i \in DOMAIN prices}))

\* What the request meets: an exception, or the list "prices" of the response
GeckoOutcomes ==
    {[err |-> TRUE, prices |-> <<>>]}
      \cup {[err |-> FALSE, prices |-> p] : p \in SeqsUpTo(GeckoPoints, MaxRows)}

\* df_gecko = fetch_btc_coingecko_free() and the append that follows it
FetchGecko ==
    /\ pc = "gecko"
    /\ \E out \in GeckoOutcomes :
          /\ LET df == CoinGecko(out.err, out.prices)
             IN /\ df_gecko' = df
                /\ sources' = AppendSource(sources, "CoinGecko", df)
    /\ calls' = Append(calls, "CoinGecko")
    /\ pc' = "merge"
    /\ UNCHANGED <<df_yahoo, df_crypto, current_date, to_ts, all_data, batch_num, merged,
                   report, file, test, warned, exit_code>>


\* ---------------------------------------------------------- merge_sources
RECURSIVE Concat(_)
\* pd.concat([df for _, df in sources], ignore_index=True)
Concat(srcs) ==
    IF srcs = <<>> THEN <<>> ELSE srcs[1].rows \o Concat(Tail(srcs))

\* Stands for a bug in MergeSources: only the first successful source is kept
MergeFirstOnly(srcs) ==
    IF srcs = <<>> THEN None
    ELSE Frame(SortValues(DropDuplicates(srcs[1].rows)))

\* Lines 200-212: None without sources, else concat, drop_duplicates, sort_values
MergeSources(srcs) ==
    IF srcs = <<>> THEN None
    ELSE Frame(SortValues(DropDuplicates(Concat(srcs))))

\* Lines 219-221: per source, len(set(source dates) & set(merged dates))
Contribution(srcs, m) ==
    [i \in DOMAIN srcs |->
        [name |-> srcs[i].name,
         overlap |-> Cardinality(DateSet(srcs[i].rows) \cap DateSet(m.rows))]]

\* The part of merge_sources after the three fetches
Merge ==
    /\ pc = "merge"
    /\ merged' = MergeSources(sources)
    /\ report' = IF sources = <<>> THEN <<>>
                 ELSE Contribution(sources, MergeSources(sources))
    /\ pc' = "merged"
    /\ UNCHANGED <<calls, df_yahoo, df_crypto, df_gecko, current_date, to_ts,
                   all_data, batch_num, sources, file, test, warned, exit_code>>

\* Line 223 / 262: merge_sources returns merged to the main block; its locals
\* (the three frames, sources, the printed counts) are gone
MergeReturn ==
    /\ pc = "merged"
    /\ df_yahoo' = None
    /\ df_crypto' = None
    /\ df_gecko' = None
    /\ sources' = <<>>
    /\ report' = <<>>
    /\ to_ts' = StartTs
    /\ pc' = "save"
    /\ UNCHANGED <<calls, current_date, all_data, batch_num, merged, file, test, warned,
                   exit_code>>

\* --------------------------------------------------------------- save_csv
\* btc_prices.csv.  written = FALSE: the run has not touched it, it is absent
\* or holds what it held before the run.
Untouched == [written |-> FALSE, cols |-> <<>>, rows |-> <<>>]

\* What df.to_csv(CSV_FILE, index=False) writes: the header and one line per row
ToCsv(rows) == [written |-> TRUE, cols |-> Header, rows |-> rows]

\* The file when to_csv raises after opening it: truncated, then a part of the lines
PartialFiles(rows) ==
    {[written |-> TRUE, cols |-> <<>>, rows |-> <<>>]}
      \cup {[written |-> TRUE, cols |-> Header, rows |-> SubSeq(rows, 1, k)] :
               k \in 0..(Len(rows) - 1)}

\* The file when the storage keeps less than was written without reporting it
ShortFiles(rows) ==
    {[written |-> TRUE, cols |-> Header, rows |-> SubSeq(rows, 1, Len(rows) - 1)],
     [written |-> TRUE, cols |-> SubSeq(Header, 1, 2), rows |-> rows],
     [written |-> TRUE, cols |-> Tail(Header), rows |-> rows]}

\* Stands for a bug in SaveCsvReject: sys.exit(0)
SaveCsvRejectExitZero ==
    /\ pc = "save"
    /\ ~Successful(merged)
    /\ exit_code' = 0
    /\ pc' = "exit"
    /\ UNCHANGED <<calls, df_yahoo, df_crypto, df_gecko, current_date, to_ts,
                   all_data, batch_num, sources, merged, report, file, test, warned>>

\* Lines 229-231: "if df is None or df.empty: sys.exit(1)"
SaveCsvReject ==
    /\ pc = "save"
    /\ ~Successful(merged)
    /\ exit_code' = 1
    /\ pc' = "exit"
    /\ UNCHANGED <<calls, df_yahoo, df_crypto, df_gecko, current_date, to_ts,
                   all_data, batch_num, sources, merged, report, file, test, warned>>

\* Line 234, df.to_csv: "ok" writes the whole frame; "denied" raises before the
\* file is opened; "broken" raises after it was opened; "short" returns
\* normally over a storage that kept less.  A raise goes to line 253-255.
SaveCsvWrite ==
    /\ pc = "save"
    /\ Successful(merged)
    /\ \E how \in {"ok", "denied", "broken", "short"} :
          \/ /\ how = "ok"
             /\ file' = ToCsv(merged.rows)
             /\ pc' = "validate"
             /\ UNCHANGED exit_code
          \/ /\ how = "short"
             /\ file' \in ShortFiles(merged.rows)
             /\ pc' = "validate"
             /\ UNCHANGED exit_code
          \/ /\ how = "denied"
             /\ UNCHANGED file
             /\ pc' = "exit"
             /\ exit_code' = 1
          \/ /\ how = "broken"
             /\ file' \in PartialFiles(merged.rows)
             /\ pc' = "exit"
             /\ exit_code' = 1
    /\ UNCHANGED <<calls, df_yahoo, df_crypto, df_gecko, current_date, to_ts,
                   all_data, batch_num, sources, merged, report, test, warned>>

\* Lines 238-255: pd.read_csv and the checks on what it returns.  readable is
\* FALSE when read_csv raises; test["date"] raises without a date column;
\* years[0] raises on a frame without rows.  On return main ends with code 0.
Validate ==
    /\ pc = "validate"
    /\ \E readable \in BOOLEAN :
          IF ~readable
          THEN /\ exit_code' = 1
               /\ UNCHANGED <<test, warned>>
          ELSE /\ test' = [cols |-> file.cols, rows |-> file.rows]
               /\ IF \A i \in DOMAIN file.cols : file.cols[i] # "date"
                  THEN /\ exit_code' = 1
                       /\ UNCHANGED warned
                  ELSE /\ warned' = (Len(file.rows) < MinRows)
                       /\ exit_code' = IF file.rows = <<>> THEN 1 ELSE 0
    /\ pc' = "exit"
    /\ UNCHANGED <<calls, df_yahoo, df_crypto, df_gecko, current_date, to_ts,
                   all_data, batch_num, sources, merged, report, file>>

\* ------------------------------------------------------------ the program
NoTest == [cols |-> <<>>, rows |-> <<>>]
Running == 0 - 1

Init ==
    /\ pc = "yahoo"
    /\ calls = <<>>
    /\ df_yahoo = None
    /\ df_crypto = None
    /\ df_gecko = None
    /\ current_date = StartTs
    /\ to_ts = StartTs
    /\ all_data = <<>>
    /\ batch_num = 0
    /\ sources = <<>>
    /\ merged = None
    /\ report = <<>>
    /\ file = Untouched
    /\ test = NoTest
    /\ warned = FALSE
    /\ exit_code = Running

Next ==
    \/ FetchYahoo
    \/ CCStart
    \/ CCBatch
    \/ FetchGecko
    \/ Merge
    \/ MergeReturn
    \/ SaveCsvReject
    \/ SaveCsvWrite
    \/ Validate

Spec == Init /\ [][Next]_vars

\* The interpreter keeps running the program: a step that can be taken is taken
FairSpec == Spec /\ WF_vars(Next)


\* ------------------------------------------------------------- the claims
Order == <<"Yahoo", "CryptoCompare", "CoinGecko">>
\* The adapters' results in priority order, while merge_sources holds them
ByPriority == <<df_yahoo, df_crypto, df_gecko>>
Good == {i \in 1..3 : Successful(ByPriority[i])}
Holders(d) == {i \in Good : d \in DateSet(ByPriority[i].rows)}
Top(d) == CHOOSE i \in Holders(d) : \A j \in Holders(d) : i <= j
\* The first row of the frame rows that carries date d
FirstRow(rows, d) ==
    rows[CHOOSE i \in DOMAIN rows :
            rows[i].date = d /\ \A j \in 1..(i - 1) : rows[j].date # d]
StrictlyAscending(rows) ==
    \A i \in 1..(Len(rows) - 1) : rows[i].date < rows[i + 1].date
NoRepeatedDate(rows) ==
    \A i, j \in DOMAIN rows : rows[i].date = rows[j].date => i = j

\* C1: once merge_sources has merged, the row of every date that more than one
\* successful source holds is the row of the highest-priority source holding it
\* (Yahoo before CryptoCompare before CoinGecko): both Open and Close are its.
C1_PriorityWins ==
    (pc = "merged" /\ merged.ok) =>
        \A i \in DOMAIN merged.rows :
            LET d == merged.rows[i].date
            IN Cardinality(Holders(d)) > 1 =>
                  merged.rows[i] = FirstRow(ByPriority[Top(d)].rows, d)

\* C1 witness: two successful sources hold a date with different prices, and
\* the merged frame carries the higher-priority row
C1_Witness ==
    /\ pc = "merged"
    /\ merged.ok
    /\ \E d \in Dates, lo \in Good :
          /\ d \in DateSet(merged.rows)
          /\ lo \in Holders(d)
          /\ lo # Top(d)
          /\ FirstRow(ByPriority[lo].rows, d) # FirstRow(ByPriority[Top(d)].rows, d)
          /\ FirstRow(merged.rows, d) = FirstRow(ByPriority[Top(d)].rows, d)

\* C2: with at least one successful source, the dates of the merged frame are
\* exactly the dates of the successful sources taken together
C2_DatesAreUnion ==
    (pc = "merged" /\ Good # {}) =>
        /\ merged.ok
        /\ DateSet(merged.rows) = UNION {DateSet(ByPriority[i].rows) : i \in Good}

\* C2 witness: two successful sources without a common date were merged
C2_Witness ==
    /\ pc = "merged"
    /\ \E a, b \in Good :
          /\ a # b
          /\ DateSet(ByPriority[a].rows) \cap DateSet(ByPriority[b].rows) = {}
          /\ DateSet(ByPriority[a].rows) \cup DateSet(ByPriority[b].rows)
                \subseteq DateSet(merged.rows)

\* C3: the merged frame, and the lines save_csv writes from it, hold one row
\* per date in strictly ascending date order
C3_SortedUnique ==
    /\ StrictlyAscending(merged.rows)
    /\ NoRepeatedDate(merged.rows)
    /\ file.written => StrictlyAscending(file.rows)
    /\ pc = "validate" => file.rows \in {merged.rows, SubSeq(merged.rows, 1, Len(merged.rows) - 1)}

\* C3 witness: Yahoo's frame came with its dates out of order, another source
\* repeats one of them, and the merged frame has two rows
C3_Witness ==
    /\ pc = "merged"
    /\ Len(df_yahoo.rows) = 2
    /\ df_yahoo.rows[1].date > df_yahoo.rows[2].date
    /\ Cardinality(Good) > 1
    /\ Len(merged.rows) = 2

\* C4 (as claimed): a frame an adapter returns has no date twice and no row
\* whose Open or Close is missing or not positive
C4_AdaptersNormalized ==
    \A i \in 1..3 :
        ByPriority[i].ok =>
            /\ NoRepeatedDate(ByPriority[i].rows)
            /\ \A k \in DOMAIN ByPriority[i].rows :
                  ByPriority[i].rows[k].Open > 0 /\ ByPriority[i].rows[k].Close > 0

\* The source whose row the merged frame kept for date d
KeptFrom(d) ==
    sources[CHOOSE i \in DOMAIN sources :
               /\ d \in DateSet(sources[i].rows)
               /\ \A j \in 1..(i - 1) : d \notin DateSet(sources[j].rows)].name

\* C5 (as claimed): the count reported for a source is the number of dates of
\* the merged frame whose row was kept from that source
C5_ContributionIsRetained ==
    (pc = "merged" /\ merged.ok) =>
        \A i \in DOMAIN report :
            report[i].overlap =
                Cardinality({d \in DateSet(merged.rows) : KeptFrom(d) = report[i].name})

IsPrefix(s, t) == Len(s) <= Len(t) /\ s = SubSeq(t, 1, Len(s))

\* C6: no exception leaves an adapter (the run never dies inside merge_sources),
\* the adapters are called once each in the order Yahoo, CryptoCompare,
\* CoinGecko, and all three have been called when the merge starts
C6_AllAdaptersCalled ==
    /\ pc # "crashed"
    /\ IsPrefix(calls, Order)
    /\ pc \in {"crypto_loop", "gecko"} => Len(calls) = 2
    /\ pc \in {"merge", "merged", "save", "validate", "exit"} => calls = Order

\* C6 witness: Yahoo and CryptoCompare both failed (None) and CoinGecko was
\* still called and delivered
C6_Witness ==
    /\ pc = "merged"
    /\ df_yahoo = None
    /\ df_crypto = None
    /\ Successful(df_gecko)
    /\ calls = Order

\* C7: without a successful source merge_sources returns None, and save_csv
\* then ends the run with code 1 without touching the file
C7_NoDataRejected ==
    /\ (pc = "merged" /\ Good = {}) => merged = None
    /\ (pc \in {"save", "validate", "exit"} /\ ~Successful(merged)) =>
          /\ file = Untouched
          /\ pc # "validate"
          /\ pc = "exit" => exit_code = 1

\* C7 witness: the run ended on the rejection
C7_Witness ==
    /\ pc = "exit"
    /\ merged = None
    /\ calls = Order
    /\ exit_code = 1
    /\ file = Untouched

\* C8 (as claimed): a run ends either with code 0 and the whole frame in the
\* file, or with an error and the file as it was before the run
C8_AtomicSave ==
    pc = "exit" =>
        \/ exit_code = 0 /\ file = ToCsv(merged.rows)
        \/ exit_code # 0 /\ file = Untouched

\* C9 (as claimed): when the frame read back has other columns than date,
\* Open, Close or another number of rows than the frame in memory, the run
\* ends with a code other than 0; a low row count alone only warns
C9_ReadBackChecked ==
    (pc = "exit" /\ test # NoTest) =>
        IF test.cols # Header \/ Len(test.rows) # Len(merged.rows)
        THEN exit_code # 0
        ELSE exit_code = 0 /\ warned = (Len(test.rows) < MinRows)

\* C10 (as claimed): the pagination loop of the CryptoCompare adapter is left
\* whatever the provider answers
C10_LoopTerminates == (pc = "crypto_loop") ~> (pc = "gecko")

=============================================================================
